---- MODULE Spec2Model ----
(***************************************************************************)
(* DMentorAI: the intervention engine (core/dmentorCore.ts), the regex     *)
(* detector's rate limit (analysis/codeAnalyzer.ts) and the adaptive       *)
(* feedback store (learning/learningSystem.ts) as one state machine.       *)
(*                                                                         *)
(* Conventions of the translation                                          *)
(*  - time is Date.now() in milliseconds;                                  *)
(*  - a string of source text is a sequence of characters, so that         *)
(*    substring(0, 30) is a real truncation;                               *)
(*  - issueTypeSensitivity holds hundredths (1.0 is 100, 0.1 is 10, 0.05   *)
(*    is 5), i.e. the decimal arithmetic the code intends;                 *)
(*  - an optional boolean (dismissed?, accepted?) is FALSE while unset:    *)
(*    the code only ever assigns true;                                     *)
(*  - an intervention id `${Date.now()}-${Math.random()}` is a fresh       *)
(*    number, issued in creation order;                                    *)
(*  - timestamps and free-text feedback are not read by any operation      *)
(*    modelled here and are left out of the records;                       *)
(*  - an absent optional string (suggestion?) is the empty string: the     *)
(*    code tests it for truthiness only;                                   *)
(*  - a formatted message is the sequence of its parts, literal text and   *)
(*    interpolated values, in order;                                       *)
(*  - awaits that settle without leaving the extension host (the regex     *)
(*    detector, the rule-based AI provider) run to completion before the   *)
(*    next event is handled; an await on a remote AI provider's fetch      *)
(*    suspends the cycle until a separate step delivers the answer.        *)
(***************************************************************************)
EXTENDS Integers, Sequences, FiniteSets, TLC

\* ------------------------------------------------------------------ bounds
MaxInterventions == 2   \* interventions ever created in a run
MaxFeedback == 2        \* accept/dismiss calls of the engine that reach recordFeedback
MaxCalls == 8           \* recordFeedback calls of the store's own interface
MaxEpoch == 1           \* cooldown-length periods the clock may run through
MaxSub == 2             \* half-debounce instants observed after the start
MaxOver == 2            \* recordFeedback calls made beyond the history's capacity
MaxPad == 17

\* ------------------------------------------------------- program constants
debounceDelay == 1000
RateLimitMs == 20000
PatternPrefixLen == 30
SensitivityInit == 100
SensitivityFloor == 30
SensitivityCeil == 100
SensitivityThreshold == 50
DismissStep == 10
AcceptStep == 5
SkipThreshold == 3
MaxHistory == 1000
DefaultMaxSuggestions == 3
ScanWindow == 20

IssueTypes == {"bug", "security", "performance", "style", "accessibility", "code-smell"}
Severities == {"critical", "warning", "info"}
FeedbackActions == {"accepted", "dismissed", "modified"}

Min(a, b) == IF a < b THEN a ELSE b
Max(a, b) == IF a > b THEN a ELSE b

\* String.prototype.substring(from, to) on a sequence of characters
Substring(s, from, to) == SubSeq(s, from + 1, Min(to, Len(s)))

Repeat(c, n) == [i \in 1..n |-> c]

\* ------------------------------------------------------------ documents
\* Two open documents. What the detector yields for a document's text is
\* fixed by the text; the texts are chosen so that their findings cover
\* a critical and a non-critical finding, two findings whose trimmed lines
\* agree on the first 30 characters, and two issue types. A third document,
\* c.js, has more findings than a cycle may deliver: an info-severity
\* security finding, an info-severity style finding, a critical finding that
\* agrees with a.js's on the first 30 characters, and a warning.
Docs == {"a.js", "b.js"}

DocScheme(d) == "file"

LongLine(tail) == Repeat("q", PatternPrefixLen) \o <<tail>>

DocIssues(d) ==
    IF d = "a.js"
    THEN << [type |-> "security", severity |-> "critical", line |-> 1,
             code |-> LongLine("1"), filePath |-> d,
             message |-> "Use Of Eval", suggestion |-> "Avoid Eval"],
            [type |-> "style", severity |-> "info", line |-> 2,
             code |-> <<"c", "l">>, filePath |-> d,
             message |-> "Console Statement", suggestion |-> ""] >>
    ELSE IF d = "b.js"
    THEN << [type |-> "security", severity |-> "warning", line |-> 1,
             code |-> LongLine("2"), filePath |-> d,
             message |-> "Use Of Eval", suggestion |-> "Avoid Eval"] >>
    ELSE << [type |-> "security", severity |-> "info", line |-> 1,
             code |-> <<"h", "t", "t", "p">>, filePath |-> d,
             message |-> "Insecure Url", suggestion |-> "Use Https"],
            [type |-> "style", severity |-> "info", line |-> 2,
             code |-> <<"c", "l">>, filePath |-> d,
             message |-> "Console Statement", suggestion |-> ""],
            [type |-> "security", severity |-> "critical", line |-> 3,
             code |-> LongLine("3"), filePath |-> d,
             message |-> "Use Of Eval", suggestion |-> "Avoid Eval"],
            [type |-> "performance", severity |-> "warning", line |-> 4,
             code |-> <<"f", "o", "r">>, filePath |-> d,
             message |-> "Nested Loop", suggestion |-> "Use A Map"] >>

AllIssues == UNION {{DocIssues(d)[i] : i \in DOMAIN DocIssues(d)} : d \in Docs}

convertToSuggestionContext(issue) ==
    [filePath |-> issue.filePath, lineNumber |-> issue.line, code |-> issue.code,
     issueType |-> issue.type, severity |-> issue.severity,
     description |-> issue.message, suggestion |-> issue.suggestion]

VARIABLES
    now,                 \* Date.now()
    config,              \* workspace configuration 'dmentorAI'
    isActive,            \* DMentorCore.isActive
    focusMode,           \* DMentorCore.focusMode
    lastDocumentChange,  \* DMentorCore.lastDocumentChange
    timers,              \* pending setTimeout callbacks of onDocumentChange
    running,             \* cycles suspended in createIntervention, awaiting the AI provider
    interventions,       \* DMentorCore.interventions
    nextId,              \* ids issued so far
    notifications,       \* dmentor.onInterventionCreated commands executed
    lastSuggestionTime,  \* CodeAnalyzer.lastSuggestionTime
    feedbackHistory,     \* LearningSystem.feedbackHistory
    learningPatterns,    \* LearningSystem.learningPatterns
    adaptationRules,     \* LearningSystem.adaptationRules
    globalState,         \* context.globalState, the persistence surface
    lastChangeEvent,     \* per document, when the last change event was delivered
    lastRunOn,           \* per document, when the detector last ran on it
    lastPass,            \* the most recent call of CodeAnalyzer.analyzeDocument
    lastCall,            \* how the most recent accept/dismiss call ended
    currentPersonality,  \* PersonalityManager.currentPersonality
    lastResponse,        \* the most recent direct call of respondToIssue and its result
    lastScan             \* the most recent direct call of analyzeJavaScript and its result

coreVars == <<config, isActive, focusMode, lastDocumentChange, timers, running,
              interventions, nextId, notifications, lastChangeEvent, lastCall>>
analyzerVars == <<lastSuggestionTime, lastRunOn, lastPass>>
learningVars == <<feedbackHistory, learningPatterns, adaptationRules, globalState>>
personalityVars == <<currentPersonality, lastResponse>>
vars == <<now, coreVars, analyzerVars, learningVars, personalityVars, lastScan>>

\* ------------------------------------------------------- learning system
EmptyMap == [k \in {} |-> 0]

EmptyRules ==
    [skipPatterns |-> <<>>, preferredPatterns |-> <<>>, issueTypeSensitivity |-> EmptyMap]

Includes(seq, x) == \E i \in DOMAIN seq : seq[i] = x

\* `${issueType}:${code.substring(0, 30)}`: no issue type contains ':', so the
\* pair determines the string and the string the pair.
PatternKey(type, code) == <<type, Substring(code, 0, PatternPrefixLen)>>

extractPattern(intervention) ==
    PatternKey(intervention.context.issueType, intervention.context.code)

\* a pattern once preferred stays preferred
updateLearningPatterns_StickyPreferred(lp, intervention, action) ==
    LET pattern == extractPattern(intervention)
        existing == IF pattern \in DOMAIN lp
                    THEN lp[pattern]
                    ELSE [pattern |-> pattern,
                          issueType |-> intervention.context.issueType,
                          userReaction |-> "neutral", count |-> 0]
        updated == [existing EXCEPT
                      !.count = @ + 1,
                      !.userReaction = IF action = "accepted" \/ @ = "preferred"
                                       THEN "preferred"
                                       ELSE IF action = "dismissed" THEN "rejected"
                                       ELSE "neutral"]
    IN [p \in DOMAIN lp \cup {pattern} |-> IF p = pattern THEN updated ELSE lp[p]]

updateLearningPatterns(lp, intervention, action) ==
    LET pattern == extractPattern(intervention)
        existing == IF pattern \in DOMAIN lp
                    THEN lp[pattern]
                    ELSE [pattern |-> pattern,
                          issueType |-> intervention.context.issueType,
                          userReaction |-> "neutral", count |-> 0]
        updated == [existing EXCEPT
                      !.count = @ + 1,
                      !.userReaction = IF action = "accepted" THEN "preferred"
                                       ELSE IF action = "dismissed" THEN "rejected"
                                       ELSE "neutral"]
    IN [p \in DOMAIN lp \cup {pattern} |-> IF p = pattern THEN updated ELSE lp[p]]

\* issueTypeSensitivity[issueType] after `if (!s[t]) s[t] = 1.0`
SensitivityOrInit(sens, issueType) ==
    IF issueType \in DOMAIN sens /\ sens[issueType] # 0
    THEN sens[issueType]
    ELSE SensitivityInit

\* a dismissal that forgets the floor
AdjustSensitivity_NoFloor(s, action) ==
    IF action = "dismissed" THEN s - DismissStep
    ELSE IF action = "accepted" THEN Min(SensitivityCeil, s + AcceptStep)
    ELSE s

AdjustSensitivity(s, action) ==
    IF action = "dismissed" THEN Max(SensitivityFloor, s - DismissStep)
    ELSE IF action = "accepted" THEN Min(SensitivityCeil, s + AcceptStep)
    ELSE s

\* the lists are appended to without looking whether they hold the pattern
updateAdaptationRules_PushAlways(rules, lp, intervention, action) ==
    LET pattern == extractPattern(intervention)
        issueType == intervention.context.issueType
        patternCount == IF pattern \in DOMAIN lp THEN lp[pattern].count ELSE 0
        skip == IF action = "dismissed" /\ patternCount >= SkipThreshold
                THEN Append(rules.skipPatterns, pattern)
                ELSE rules.skipPatterns
        preferred == IF action = "accepted"
                     THEN Append(rules.preferredPatterns, pattern)
                     ELSE rules.preferredPatterns
        sens == rules.issueTypeSensitivity
        value == AdjustSensitivity(SensitivityOrInit(sens, issueType), action)
    IN [skipPatterns |-> skip,
        preferredPatterns |-> preferred,
        issueTypeSensitivity |->
            [t \in DOMAIN sens \cup {issueType} |-> IF t = issueType THEN value ELSE sens[t]]]

updateAdaptationRules(rules, lp, intervention, action) ==
    LET pattern == extractPattern(intervention)
        issueType == intervention.context.issueType
        patternCount == IF pattern \in DOMAIN lp THEN lp[pattern].count ELSE 0
        skip == IF action = "dismissed" /\ patternCount >= SkipThreshold
                   /\ ~Includes(rules.skipPatterns, pattern)
                THEN Append(rules.skipPatterns, pattern)
                ELSE rules.skipPatterns
        preferred == IF action = "accepted" /\ ~Includes(rules.preferredPatterns, pattern)
                     THEN Append(rules.preferredPatterns, pattern)
                     ELSE rules.preferredPatterns
        sens == rules.issueTypeSensitivity
        value == AdjustSensitivity(SensitivityOrInit(sens, issueType), action)
    IN [skipPatterns |-> skip,
        preferredPatterns |-> preferred,
        issueTypeSensitivity |->
            [t \in DOMAIN sens \cup {issueType} |-> IF t = issueType THEN value ELSE sens[t]]]

\* `rules.issueTypeSensitivity[type] || 1.0`
SensitivityOf(rules, type) ==
    IF type \in DOMAIN rules.issueTypeSensitivity /\ rules.issueTypeSensitivity[type] # 0
    THEN rules.issueTypeSensitivity[type]
    ELSE SensitivityInit

\* the sensitivity test forgets the exemption of critical issues
shouldShowIssueIn_NoExemption(rules, issue) ==
    IF Includes(rules.skipPatterns, PatternKey(issue.type, issue.code))
    THEN FALSE
    ELSE IF SensitivityOf(rules, issue.type) < SensitivityThreshold
    THEN FALSE
    ELSE TRUE

\* critical issues are let through before the skip list is consulted
shouldShowIssueIn_CriticalFirst(rules, issue) ==
    IF issue.severity = "critical"
    THEN TRUE
    ELSE IF Includes(rules.skipPatterns, PatternKey(issue.type, issue.code))
    THEN FALSE
    ELSE IF SensitivityOf(rules, issue.type) < SensitivityThreshold
    THEN FALSE
    ELSE TRUE

\* a preferred pattern is shown even when it is on the skip list
shouldShowIssueIn_PreferredFirst(rules, issue) ==
    IF Includes(rules.preferredPatterns, PatternKey(issue.type, issue.code))
    THEN TRUE
    ELSE IF Includes(rules.skipPatterns, PatternKey(issue.type, issue.code))
    THEN FALSE
    ELSE IF SensitivityOf(rules, issue.type) < SensitivityThreshold
            /\ issue.severity # "critical"
    THEN FALSE
    ELSE TRUE

shouldShowIssueIn(rules, issue) ==
    IF Includes(rules.skipPatterns, PatternKey(issue.type, issue.code))
    THEN FALSE
    ELSE IF SensitivityOf(rules, issue.type) < SensitivityThreshold
            /\ issue.severity # "critical"
    THEN FALSE
    ELSE TRUE

shouldShowIssue(issue) == shouldShowIssueIn(adaptationRules, issue)

\* the oldest 1000 entries are kept and the newest dropped
TrimHistory_KeepOldest(h) ==
    IF Len(h) > MaxHistory THEN SubSeq(h, 1, MaxHistory) ELSE h

TrimHistory(h) ==
    IF Len(h) > MaxHistory THEN SubSeq(h, Len(h) - MaxHistory + 1, Len(h)) ELSE h

\* recordFeedback: push, update patterns, update rules, save both stores,
\* and only then trim the in-memory history.
recordFeedback(intervention, action) ==
    LET pushed == Append(feedbackHistory,
                         [interventionId |-> intervention.id, action |-> action,
                          issueType |-> intervention.context.issueType])
        lp == updateLearningPatterns(learningPatterns, intervention, action)
        rules == updateAdaptationRules(adaptationRules, lp, intervention, action)
    IN /\ learningPatterns' = lp
       /\ adaptationRules' = rules
       /\ globalState' = [feedback |-> pushed, patterns |-> lp, adaptation |-> rules]
       /\ feedbackHistory' = TrimHistory(pushed)

\* the reset leaves the skip list as it is
resetLearningData_KeepsSkipList ==
    LET rules == [EmptyRules EXCEPT !.skipPatterns = adaptationRules.skipPatterns]
    IN /\ feedbackHistory' = <<>>
       /\ learningPatterns' = EmptyMap
       /\ adaptationRules' = rules
       /\ globalState' = [feedback |-> <<>>, patterns |-> EmptyMap, adaptation |-> rules]

resetLearningData ==
    /\ feedbackHistory' = <<>>
    /\ learningPatterns' = EmptyMap
    /\ adaptationRules' = EmptyRules
    /\ globalState' = [feedback |-> <<>>, patterns |-> EmptyMap, adaptation |-> EmptyRules]

\* 'modified' feedback is counted as accepted as well
getLearningStats_ModifiedAsAccepted ==
    LET n(a) == Cardinality({i \in DOMAIN feedbackHistory : feedbackHistory[i].action = a})
    IN [totalFeedback |-> Len(feedbackHistory), accepted |-> n("accepted") + n("modified"),
        dismissed |-> n("dismissed"), modified |-> n("modified")]

getLearningStats ==
    LET n(a) == Cardinality({i \in DOMAIN feedbackHistory : feedbackHistory[i].action = a})
    IN [totalFeedback |-> Len(feedbackHistory), accepted |-> n("accepted"),
        dismissed |-> n("dismissed"), modified |-> n("modified")]

\* ------------------------------------------------------------ the clock
StartTime == 3 * RateLimitMs
HalfDelay == debounceDelay \div 2

\* The instants at which the environment acts: the first few half-debounce
\* instants after the start, and the start of each later cooldown-length
\* period.
Times ==
    {StartTime + s * HalfDelay : s \in 0..MaxSub}
        \cup {StartTime + e * RateLimitMs : e \in 1..MaxEpoch}

\* --------------------------------------------------------- configuration
\* config.get(key, default) of the options the handlers read. aiProvider
\* "openai" stands for a remote provider with its API key set.
DefaultConfig ==
    [proactiveInterruptions |-> TRUE, autoReviewOnSave |-> TRUE,
     interventionFrequency |-> "balanced", maxSuggestionsPerMinute |-> DefaultMaxSuggestions,
     useAIEnhancement |-> FALSE, aiProvider |-> "local",
     personality |-> "creative-collaborator"]

Configs ==
    {DefaultConfig,
     [DefaultConfig EXCEPT !.proactiveInterruptions = FALSE],
     [DefaultConfig EXCEPT !.interventionFrequency = "minimal"],
     [DefaultConfig EXCEPT !.interventionFrequency = "aggressive"]}

\* ------------------------------------------------------------- detector
NoPass ==
    [doc |-> "", trigger |-> "none", at |-> 0, enabled |-> FALSE, prev |-> 0,
     sinceChange |-> 0, result |-> <<>>]

\* CodeAnalyzer.analyzeDocument, the guard of lines 132-134
DetectionEnabled(d) == config.proactiveInterruptions /\ DocScheme(d) = "file"

\* CodeAnalyzer.analyzeDocument, the rate limit of lines 137-140
RateLimited == now - lastSuggestionTime < RateLimitMs

PassRuns(d) == DetectionEnabled(d) /\ ~RateLimited

\* every call restarts the window, also one the rate limit turns away
NextSuggestionTime_Restart(d) == IF DetectionEnabled(d) THEN now ELSE lastSuggestionTime

NextSuggestionTime(d) == IF PassRuns(d) THEN now ELSE lastSuggestionTime

\* a pass that returns its findings inside the window as well
analyzerResult_NoRateLimit(d) == IF DetectionEnabled(d) THEN DocIssues(d) ELSE <<>>

\* what CodeAnalyzer.analyzeDocument returns for document d
analyzerResult(d) == IF PassRuns(d) THEN DocIssues(d) ELSE <<>>

\* CodeAnalyzer.analyzeDocument as a step, called for `trigger`
analyzerPass(d, trigger) ==
    /\ lastSuggestionTime' = NextSuggestionTime(d)
    /\ lastRunOn' = IF PassRuns(d) THEN [lastRunOn EXCEPT ![d] = now] ELSE lastRunOn
    /\ lastPass' = [doc |-> d, trigger |-> trigger, at |-> now,
                    enabled |-> DetectionEnabled(d), prev |-> lastSuggestionTime,
                    sinceChange |-> IF trigger = "change"
                                    THEN now - lastChangeEvent[d] ELSE 0,
                    result |-> analyzerResult(d)]

\* ---------------------------------------------------------- loop detector
\* analyzeJavaScript looks at a document line by line. The lines of this
\* table are the ones the nested-loop rule tells apart: whether the line
\* matches /for\s*\(/ and how many braces it opens and closes. None of them
\* matches another rule of analyzeJavaScript.
ScanLines == {"for (i) {", "for (i)", "{", "}", "x = 1"}

\* line.trim().match(/for\s*\(/)
MatchesFor(line) == line \in {"for (i) {", "for (i)"}

\* (line.match(/\{/g) || []).length
OpenBraces(line) == IF line \in {"for (i) {", "{"} THEN 1 ELSE 0

\* (line.match(/\}/g) || []).length
CloseBraces(line) == IF line = "}" THEN 1 ELSE 0

\* the for statement of hasNestedLoop, from 0-based index i up to `end`
RECURSIVE ScanFrom(_, _, _, _, _)
ScanFrom(lines, i, end, braceCount, foundFor) ==
    IF i >= end
    THEN FALSE
    ELSE LET line == lines[i + 1]
         IN IF MatchesFor(line) /\ foundFor /\ braceCount = 1
            THEN TRUE
            ELSE ScanFrom(lines, i + 1, end,
                          braceCount + OpenBraces(line) - CloseBraces(line),
                          foundFor \/ MatchesFor(line))

\* a scan that runs to the end of the document
hasNestedLoop_WholeDocument(lines, startLine) ==
    ScanFrom(lines, startLine, Len(lines), 0, FALSE)

\* CodeAnalyzer.hasNestedLoop(code, startLine); startLine is a 0-based index
hasNestedLoop(lines, startLine) ==
    ScanFrom(lines, startLine, Min(startLine + ScanWindow, Len(lines)), 0, FALSE)

\* The performance issues of CodeAnalyzer.analyzeJavaScript, in document
\* order; lineNum is index + 1.
analyzeJavaScript(lines) ==
    LET hit(n) == MatchesFor(lines[n]) /\ hasNestedLoop(lines, n - 1)
        issueAt(n) == [type |-> "performance", severity |-> "warning", line |-> n,
                       message |-> "Nested Loop", code |-> lines[n],
                       suggestion |-> "Use A Map"]
        F[n \in 0..Len(lines)] ==
            IF n = 0 THEN <<>>
            ELSE IF hit(n) THEN Append(F[n - 1], issueAt(n)) ELSE F[n - 1]
    IN F[Len(lines)]

\* no document handed to analyzeJavaScript
NoScan == [lines |-> <<>>, issues |-> <<>>, returned |-> FALSE]

\* ---------------------------------------------------------- personalities
PersonalityTypes ==
    {"strict-mentor", "creative-collaborator", "rubber-duck", "security-guardian",
     "performance-optimizer", "accessibility-advocate"}

Tones == {"direct", "supportive", "questioning", "urgent", "gentle"}

\* PersonalityManager.loadCurrentPersonality
loadCurrentPersonality(cfg) ==
    IF cfg.personality \in PersonalityTypes THEN cfg.personality ELSE "creative-collaborator"

\* Personality.getSeverityEmoji
getSeverityEmoji(severity) ==
    CASE severity = "critical" -> "emoji:rotating-light"
      [] severity = "warning" -> "emoji:warning"
      [] severity = "info" -> "emoji:bulb"
      [] OTHER -> "emoji:pushpin"

\* String.prototype.toLowerCase on the texts the issues carry
ToLower(text) ==
    CASE text = "Use Of Eval" -> "use of eval"
      [] text = "Avoid Eval" -> "avoid eval"
      [] text = "Console Statement" -> "console statement"
      [] text = "Insecure Url" -> "insecure url"
      [] text = "Use Https" -> "use https"
      [] text = "Nested Loop" -> "nested loop"
      [] text = "Use A Map" -> "use a map"
      [] OTHER -> text

\* a || b on strings
OrElse(a, b) == IF a # "" THEN a ELSE b

Line(c) == ToString(c.lineNumber)

StrictMentorMessage(c) ==
    CASE c.issueType = "bug" ->
           <<"emoji:rotating-light STOP: ", c.description, "\nLine ", Line(c),
             ": This is a critical bug that will cause issues in production.\n",
             OrElse(c.suggestion, "Fix this immediately.")>>
      [] c.issueType = "security" ->
           <<"emoji:rotating-light SECURITY RISK: ", c.description, "\nLine ", Line(c),
             ": This vulnerability must be addressed before deployment.\n",
             OrElse(c.suggestion, "Implement proper security measures.")>>
      [] c.issueType = "performance" ->
           <<"emoji:x Unacceptable: ", c.description, "\nLine ", Line(c),
             ": This inefficiency will cause performance problems.\n",
             OrElse(c.suggestion, "Refactor immediately.")>>
      [] OTHER ->
           <<getSeverityEmoji(c.severity), " ", c.description, "\nLine ", Line(c), ": ",
             OrElse(c.suggestion, "This needs attention.")>>

CreativeCollaboratorMessage(c) ==
    CASE c.issueType = "bug" ->
           <<"emoji:bulb Hey! I noticed ", ToLower(c.description), " on line ", Line(c),
             ".\nHow about ", OrElse(ToLower(c.suggestion), "reviewing this"),
             "? This would make your code more resilient!">>
      [] c.issueType = "security" ->
           <<"emoji:lock Interesting approach! For better security, consider: ",
             c.description, ".\nLine ", Line(c), ": ",
             OrElse(c.suggestion, "Want to see an example?")>>
      [] c.issueType = "performance" ->
           <<"emoji:zap Nice work so far! There's a performance consideration on line ",
             Line(c), ".\n", c.description, ". Have you considered ",
             OrElse(ToLower(c.suggestion), "optimizing this"), "?">>
      [] OTHER ->
           <<getSeverityEmoji(c.severity), " ", c.description, "\nLine ", Line(c), ": ",
             OrElse(c.suggestion, "Want to explore alternatives?")>>

\* RubberDuck.generateQuestions, the first question
FirstQuestion(c) ==
    CASE c.issueType = "bug" ->
           <<"What happens if the condition on line ", Line(c), " is false?">>
      [] c.issueType = "security" -> <<"How would an attacker exploit this?">>
      [] c.issueType = "performance" -> <<"How many times will this execute?">>
      [] OTHER -> <<"What are you trying to achieve here?">>

RubberDuckMessage(c) ==
    <<"emoji:duck Question: ">> \o FirstQuestion(c)
        \o <<"\n\n", c.description, "\nLine ", Line(c),
             "\n\nHave you considered all the code paths that lead here?\nWalk me through your logic...">>

SecurityGuardianMessage(c) ==
    IF c.issueType = "security" \/ c.severity = "critical"
    THEN <<"emoji:shield STOP! Security Vulnerability Detected:\n\n", c.description,
           "\nLine ", Line(c), "\n\nThis could be exploited by attackers. ",
           OrElse(c.suggestion, "Immediate action required.")>>
    ELSE <<"emoji:lock Security Check: ", c.description, "\nLine ", Line(c),
           "\nFrom an attacker's perspective: ",
           OrElse(c.suggestion, "This should be reviewed for potential exploits.")>>

PerformanceOptimizerMessage(c) ==
    IF c.issueType = "performance"
    THEN <<"emoji:zap Performance Warning: ", c.description, "\nLine ", Line(c),
           ": This will impact performance with larger datasets.\n\nOptimization: ",
           OrElse(c.suggestion, "Consider refactoring for better complexity."),
           "\n\n[Show optimized code]">>
    ELSE <<"emoji:zap Performance Note: ", c.description, "\nLine ", Line(c), ": ",
           OrElse(c.suggestion, "This could be optimized for better performance.")>>

AccessibilityAdvocateMessage(c) ==
    IF c.issueType = "accessibility"
    THEN <<"emoji:wheelchair Accessibility Issue: ", c.description, "\nLine ", Line(c),
           "\n\nThis affects users with disabilities. WCAG compliance requires: ",
           OrElse(c.suggestion, "Adding proper accessibility attributes.")>>
    ELSE <<"emoji:wheelchair Inclusive Design Check: ", c.description, "\nLine ", Line(c),
           "\nFor better accessibility: ",
           OrElse(c.suggestion, "Consider semantic HTML and ARIA labels.")>>

\* the icon of the default branch follows the severity
respondToIssue_SeverityIcon(personality, c) ==
    [message |-> <<getSeverityEmoji(c.severity), " ", c.description>>,
     icon |-> getSeverityEmoji(c.severity), tone |-> "supportive", showCodeExample |-> TRUE]

\* Personality.respondToIssue of the variant `personality`
respondToIssue(personality, c) ==
    CASE personality = "strict-mentor" ->
           [message |-> StrictMentorMessage(c), icon |-> "emoji:rotating-light",
            tone |-> "direct", showCodeExample |-> TRUE]
      [] personality = "creative-collaborator" ->
           [message |-> CreativeCollaboratorMessage(c), icon |-> "emoji:bulb",
            tone |-> "supportive", showCodeExample |-> TRUE]
      [] personality = "rubber-duck" ->
           [message |-> RubberDuckMessage(c), icon |-> "emoji:duck",
            tone |-> "questioning", showCodeExample |-> FALSE]
      [] personality = "security-guardian" ->
           [message |-> SecurityGuardianMessage(c), icon |-> "emoji:shield",
            tone |-> "urgent", showCodeExample |-> TRUE]
      [] personality = "performance-optimizer" ->
           [message |-> PerformanceOptimizerMessage(c), icon |-> "emoji:zap",
            tone |-> "direct", showCodeExample |-> TRUE]
      [] personality = "accessibility-advocate" ->
           [message |-> AccessibilityAdvocateMessage(c), icon |-> "emoji:wheelchair",
            tone |-> "supportive", showCodeExample |-> TRUE]

NoResponse == [by |-> "none"]

\* ----------------------------------------------------------------- core
\* 'balanced' drops every info-severity issue, security ones too
FrequencyKeeps_NoSecurityException(frequency, issue) ==
    IF frequency = "minimal" THEN issue.severity = "critical"
    ELSE IF frequency = "balanced" THEN issue.severity # "info"
    ELSE TRUE

FrequencyKeeps(frequency, issue) ==
    IF frequency = "minimal" THEN issue.severity = "critical"
    ELSE IF frequency = "balanced" THEN issue.severity # "info" \/ issue.type = "security"
    ELSE TRUE

Slice(s, n) == SubSeq(s, 1, Min(n, Len(s)))

\* the detector's issues are cut to the maximum before they are filtered
limitedIssues_SliceFirst(d) ==
    LET keep(i) == FrequencyKeeps(config.interventionFrequency, i)
        cut == Slice(analyzerResult(d), config.maxSuggestionsPerMinute)
    IN SelectSeq(SelectSeq(cut, shouldShowIssue), keep)

\* the issues DMentorCore.analyzeDocument turns into interventions
limitedIssues(d) ==
    LET keep(i) == FrequencyKeeps(config.interventionFrequency, i)
        shown == SelectSeq(analyzerResult(d), shouldShowIssue)
    IN Slice(SelectSeq(shown, keep), config.maxSuggestionsPerMinute)

\* the enhanced suggestion replaces the code of the context
Enhanced_ReplacesCode(context, analysis) ==
    IF analysis = "" THEN context ELSE [context EXCEPT !.code = <<"A", "I">>]

\* the enhanced suggestion, when there is one, replaces the issue's own
Enhanced(context, analysis) ==
    [context EXCEPT !.suggestion = OrElse(analysis, context.suggestion)]

\* an intervention of the issue, its suggestion enhanced by `analysis`,
\* answered by the variant `personality`
interventionOf(issue, id, analysis, personality) ==
    LET context == Enhanced(convertToSuggestionContext(issue), analysis)
    IN [id |-> id, context |-> context, response |-> respondToIssue(personality, context),
        dismissed |-> FALSE, accepted |-> FALSE]

newIntervention(issue, id) == interventionOf(issue, id, "", currentPersonality)

\* issues become interventions with fresh ids, in order
Created(issues) == [k \in 1..Len(issues) |-> newIntervention(issues[k], nextId + k - 1)]

\* createIntervention awaits analyzeCodeWithAI; the await leaves the extension
\* host only when the provider fetches from a remote service
AwaitsAI == config.useAIEnhancement /\ config.aiProvider \in {"openai", "anthropic"}

\* LocalAIProvider.analyzeCode, the text of the rule-based provider
LocalAnalysis == "Analysis: Review the code for best practices, potential bugs, and improvements."

\* what analyzeCodeWithAI yields without leaving the extension host; no
\* analysis is asked for unless useAIEnhancement is on
ImmediateAnalysis ==
    IF config.useAIEnhancement /\ config.aiProvider = "local" THEN LocalAnalysis ELSE ""

\* what a remote provider's fetch may settle with: a text, or an error,
\* which analyzeCodeWithAI turns into ''
RemoteAnalyses == {"", "AI Analysis"}

\* createIntervention per issue, each with the analysis it obtained
CreatedWith(issues, analyses) ==
    [k \in 1..Len(issues) |->
        interventionOf(issues[k], nextId + k - 1, analyses[k], currentPersonality)]

\* issues of suspended cycles that are still to become interventions
RECURSIVE Outstanding(_)
Outstanding(cycles) ==
    IF cycles = <<>> THEN 0 ELSE Len(Head(cycles).todo) + Outstanding(Tail(cycles))

\* DMentorCore.analyzeDocument: createIntervention pushes and notifies, per
\* issue; with a remote AI provider the cycle suspends before its first push
analyzeDocument(d, trigger) ==
    LET issues == limitedIssues(d)
        made == IF AwaitsAI THEN <<>>
                ELSE CreatedWith(issues, [k \in 1..Len(issues) |-> ImmediateAnalysis])
    IN /\ nextId + Outstanding(running) + Len(issues) - 1 <= MaxInterventions
       /\ analyzerPass(d, trigger)
       /\ interventions' = interventions \o made
       /\ nextId' = nextId + Len(made)
       /\ notifications' = notifications \o [k \in 1..Len(made) |-> made[k].id]
       /\ running' = IF AwaitsAI /\ issues # <<>>
                     THEN Append(running, [doc |-> d, trigger |-> trigger, todo |-> issues,
                                           personality |-> currentPersonality])
                     ELSE running

\* resolved interventions are left out, accepted ones too
getInterventions_Unresolved ==
    SelectSeq(interventions, LAMBDA i : ~i.dismissed /\ ~i.accepted)

getInterventions == SelectSeq(interventions, LAMBDA i : ~i.dismissed)

\* an id that matches nothing falls back to the newest intervention
FindIndex_Fallback(id) ==
    IF \E k \in DOMAIN interventions : interventions[k].id = id
    THEN CHOOSE k \in DOMAIN interventions : interventions[k].id = id
    ELSE Len(interventions)

FindIndex(id) ==
    IF \E k \in DOMAIN interventions : interventions[k].id = id
    THEN CHOOSE k \in DOMAIN interventions :
            /\ interventions[k].id = id
            /\ \A j \in 1..(k - 1) : interventions[j].id # id
    ELSE 0

\* --------------------------------------------------------------- actions
Constructed ==
    /\ now = StartTime
    /\ config = DefaultConfig
    /\ isActive = TRUE
    /\ focusMode = FALSE
    /\ lastDocumentChange = [d \in Docs |-> 0]
    /\ timers = {}
    /\ running = <<>>
    /\ interventions = <<>>
    /\ nextId = 1
    /\ notifications = <<>>
    /\ lastSuggestionTime = 0
    /\ feedbackHistory = <<>>
    /\ learningPatterns = EmptyMap
    /\ adaptationRules = EmptyRules
    /\ globalState = [feedback |-> <<>>, patterns |-> EmptyMap, adaptation |-> EmptyRules]
    /\ lastChangeEvent = [d \in Docs |-> 0]
    /\ lastRunOn = [d \in Docs |-> 0]
    /\ lastPass = NoPass
    /\ lastCall = "none"
    /\ currentPersonality = loadCurrentPersonality(DefaultConfig)
    /\ lastResponse = NoResponse

Init == Constructed /\ lastScan = NoScan

\* Time passes, to one of the observed instants or to the next timer's due
\* time, and never beyond a timer that is due.
Advance(t) ==
    /\ t > now
    /\ \A tm \in timers : t <= tm.fireAt
    /\ now' = t
    /\ UNCHANGED <<coreVars, analyzerVars, learningVars, personalityVars, lastScan>>

\* the user or a settings sync edits the 'dmentorAI' configuration
SetConfig(c) ==
    /\ c # config
    /\ config' = c
    /\ UNCHANGED <<now, personalityVars, lastScan, isActive, focusMode, lastDocumentChange, timers, running,
                   interventions, nextId, notifications, lastChangeEvent, lastCall,
                   analyzerVars, learningVars>>

\* DMentorCore.onDocumentChange; change events arrive at the observed instants
onDocumentChange(d) ==
    /\ now \in Times
    /\ IF ~isActive \/ focusMode
       THEN UNCHANGED <<lastChangeEvent, lastDocumentChange, timers>>
       ELSE IF ~config.proactiveInterruptions
       THEN UNCHANGED <<lastChangeEvent, lastDocumentChange, timers>>
       ELSE /\ lastChangeEvent' = [lastChangeEvent EXCEPT ![d] = now]
            /\ IF now - lastDocumentChange[d] < debounceDelay
               THEN UNCHANGED <<lastDocumentChange, timers>>
               ELSE /\ lastDocumentChange' = [lastDocumentChange EXCEPT ![d] = now]
                    /\ timers' = timers \cup {[doc |-> d, fireAt |-> now + debounceDelay]}
    /\ UNCHANGED <<now, personalityVars, lastScan, config, isActive, focusMode, running, interventions, nextId,
                   notifications, lastCall, analyzerVars, learningVars>>

\* the setTimeout callback of onDocumentChange
TimerFires(tm) ==
    /\ tm \in timers
    /\ now >= tm.fireAt
    /\ timers' = timers \ {tm}
    /\ analyzeDocument(tm.doc, "change")
    /\ UNCHANGED <<now, personalityVars, lastScan, config, isActive, focusMode, lastDocumentChange, lastChangeEvent,
                   lastCall, learningVars>>

\* DMentorCore.onDocumentSave
onDocumentSave(d) ==
    /\ IF config.autoReviewOnSave /\ ~focusMode
       THEN analyzeDocument(d, "save")
       ELSE UNCHANGED <<running, interventions, nextId, notifications, analyzerVars>>
    /\ UNCHANGED <<now, personalityVars, lastScan, config, isActive, focusMode, lastDocumentChange, timers,
                   lastChangeEvent, lastCall, learningVars>>

\* DMentorCore.requestReview: every issue of the pass becomes an intervention,
\* pushed onto the live collection without a notification
requestReview(d) ==
    LET made == Created(analyzerResult(d))
    IN /\ nextId + Outstanding(running) + Len(made) - 1 <= MaxInterventions
       /\ analyzerPass(d, "review")
       /\ interventions' = interventions \o made
       /\ nextId' = nextId + Len(made)
       /\ UNCHANGED <<now, personalityVars, lastScan, config, isActive, focusMode, lastDocumentChange, timers,
                      running, notifications, lastChangeEvent, lastCall, learningVars>>

\* DMentorCore.dismissIntervention
dismissIntervention(id) ==
    LET k == FindIndex(id)
    IN /\ lastCall' = IF k # 0 THEN "dismissed" ELSE "dismiss ignored"
       /\ IF k # 0
          THEN /\ Len(feedbackHistory) < MaxFeedback
               /\ interventions' = [interventions EXCEPT ![k].dismissed = TRUE]
               /\ recordFeedback(interventions[k], "dismissed")
          ELSE UNCHANGED <<interventions, learningVars>>
       /\ UNCHANGED <<now, personalityVars, lastScan, config, isActive, focusMode, lastDocumentChange, timers, running,
                      nextId, notifications, lastChangeEvent, analyzerVars>>

\* DMentorCore.acceptIntervention
acceptIntervention(id) ==
    LET k == FindIndex(id)
    IN /\ lastCall' = IF k # 0 THEN "accepted" ELSE "accept ignored"
       /\ IF k # 0
          THEN /\ Len(feedbackHistory) < MaxFeedback
               /\ interventions' = [interventions EXCEPT ![k].accepted = TRUE]
               /\ recordFeedback(interventions[k], "accepted")
          ELSE UNCHANGED <<interventions, learningVars>>
       /\ UNCHANGED <<now, personalityVars, lastScan, config, isActive, focusMode, lastDocumentChange, timers, running,
                      nextId, notifications, lastChangeEvent, analyzerVars>>

\* The fetch a suspended cycle awaits settles with `analysis`:
\* createIntervention, which took the personality before it suspended, pushes
\* and notifies, and the loop of analyzeDocument goes on to the next issue,
\* whose createIntervention reads personality and configuration anew.
AIResponds(k, analysis) ==
    /\ k \in DOMAIN running
    /\ LET cycle == running[k]
           first == interventionOf(Head(cycle.todo), nextId, analysis, cycle.personality)
           rest == Tail(cycle.todo)
           left == IF AwaitsAI THEN rest ELSE <<>>
           made == IF AwaitsAI THEN <<first>>
                   ELSE <<first>> \o [j \in 1..Len(rest) |->
                                         interventionOf(rest[j], nextId + j, ImmediateAnalysis,
                                                        currentPersonality)]
       IN /\ interventions' = interventions \o made
          /\ nextId' = nextId + Len(made)
          /\ notifications' = notifications \o [j \in 1..Len(made) |-> made[j].id]
          /\ running' = IF left = <<>>
                        THEN SubSeq(running, 1, k - 1) \o SubSeq(running, k + 1, Len(running))
                        ELSE [running EXCEPT ![k].todo = left,
                                             ![k].personality = currentPersonality]
    /\ UNCHANGED <<now, personalityVars, lastScan, config, isActive, focusMode, lastDocumentChange, timers,
                   lastChangeEvent, lastCall, analyzerVars, learningVars>>

\* PersonalityManager.switchPersonality(newType), the variant chosen in the
\* quick pick or handed over by a caller
switchPersonality(newType) ==
    /\ IF newType \in PersonalityTypes
       THEN /\ currentPersonality' = newType
            /\ config' = [config EXCEPT !.personality = newType]
       ELSE UNCHANGED <<currentPersonality, config>>
    /\ lastCall' = IF newType \in PersonalityTypes THEN "switched" ELSE "switch ignored"
    /\ UNCHANGED <<now, lastResponse, lastScan, isActive, focusMode, lastDocumentChange, timers, running,
                   interventions, nextId, notifications, lastChangeEvent, analyzerVars,
                   learningVars>>

\* personality.respondToIssue(context) called on the active personality
CallRespondToIssue(context) ==
    /\ lastResponse' = [by |-> currentPersonality, context |-> context,
                        result |-> respondToIssue(currentPersonality, context)]
    /\ UNCHANGED <<now, currentPersonality, lastScan, coreVars, analyzerVars, learningVars>>

\* analyzeJavaScript runs on the document it was handed and returns
CallAnalyzeJavaScript ==
    /\ ~lastScan.returned
    /\ lastScan.lines # <<>>
    /\ lastScan' = [lastScan EXCEPT !.issues = analyzeJavaScript(lastScan.lines),
                                    !.returned = TRUE]
    /\ UNCHANGED <<now, coreVars, analyzerVars, learningVars, personalityVars>>

\* DMentorCore.setFocusMode, through the command dmentor.enableFocusMode
setFocusMode(enabled) ==
    /\ enabled # focusMode
    /\ focusMode' = enabled
    /\ UNCHANGED <<now, personalityVars, lastScan, config, isActive, lastDocumentChange, timers, running, interventions,
                   nextId, notifications, lastChangeEvent, lastCall, analyzerVars,
                   learningVars>>

\* DMentorCore.toggleInterventions
toggleInterventions ==
    /\ isActive' = ~isActive
    /\ UNCHANGED <<now, personalityVars, lastScan, config, focusMode, lastDocumentChange, timers, running, interventions,
                   nextId, notifications, lastChangeEvent, lastCall, analyzerVars,
                   learningVars>>

\* LearningSystem.resetLearningData
ResetLearning ==
    /\ feedbackHistory # <<>>
    /\ resetLearningData
    /\ lastCall' = "reset"
    /\ UNCHANGED <<now, personalityVars, lastScan, config, isActive, focusMode, lastDocumentChange, timers, running,
                   interventions, nextId, notifications, lastChangeEvent, analyzerVars>>

\* ids the presentation sink may send: those issued and one never issued
IdInputs == 1..(MaxInterventions + 1)

Next ==
    \/ \E t \in Times \cup {tm.fireAt : tm \in timers} : Advance(t)
    \/ \E c \in Configs : SetConfig(c)
    \/ \E d \in Docs : onDocumentChange(d)
    \/ \E tm \in timers : TimerFires(tm)
    \/ \E d \in Docs : onDocumentSave(d)
    \/ \E d \in Docs : requestReview(d)
    \/ \E id \in IdInputs : dismissIntervention(id)
    \/ \E id \in IdInputs : acceptIntervention(id)
    \/ \E k \in DOMAIN running, analysis \in RemoteAnalyses : AIResponds(k, analysis)
    \/ \E e \in BOOLEAN : setFocusMode(e)
    \/ toggleInterventions
    \/ ResetLearning
    \/ \E t \in PersonalityTypes \cup {"unknown"} : switchPersonality(t)

Spec == Init /\ [][Next]_vars

\* ------------------------------------------- the store's own interface
\* LearningSystem driven directly through recordFeedback and
\* resetLearningData, with interventions of the documents' issues.
SampleInterventions ==
    {newIntervention(DocIssues("a.js")[1], 1), newIntervention(DocIssues("a.js")[2], 2)}

\* the calls made: every action on the first intervention, and dismissals of
\* the second, whose issue type differs
CallInputs ==
    {<<iv, a>> \in SampleInterventions \X FeedbackActions : iv.id = 1 \/ a = "dismissed"}

CallRecordFeedback(intervention, action) ==
    /\ Len(feedbackHistory) < MaxCalls
    /\ recordFeedback(intervention, action)
    /\ lastCall' = "recorded"
    /\ UNCHANGED <<now, personalityVars, lastScan, config, isActive, focusMode, lastDocumentChange, timers, running,
                   interventions, nextId, notifications, lastChangeEvent, analyzerVars>>

NextLearning ==
    \/ \E c \in CallInputs : CallRecordFeedback(c[1], c[2])
    \/ ResetLearning

SpecLearning == Init /\ [][NextLearning]_vars

\* The store up to and beyond the capacity of its history. Every call counts
\* one occurrence of one pattern, so the counts add up to the calls made
\* since the last reset.
RECURSIVE SumCounts(_, _)
SumCounts(lp, keys) ==
    IF keys = {} THEN 0
    ELSE LET k == CHOOSE x \in keys : TRUE
         IN lp[k].count + SumCounts(lp, keys \ {k})

CallsMade == SumCounts(learningPatterns, DOMAIN learningPatterns)

\* recordFeedback called until the history is full and MaxOver times more;
\* the calls that fill the history, all but the last MaxOver of them, are
\* 'modified' on the first intervention
FillAndRecord(intervention, action) ==
    /\ CallsMade < MaxHistory + MaxOver
    /\ CallsMade < MaxHistory - MaxOver => intervention.id = 1 /\ action = "modified"
    /\ recordFeedback(intervention, action)
    /\ lastCall' = "recorded"
    /\ UNCHANGED <<now, personalityVars, lastScan, config, isActive, focusMode, lastDocumentChange, timers, running,
                   interventions, nextId, notifications, lastChangeEvent, analyzerVars>>

NextRetention == \E c \in CallInputs : FillAndRecord(c[1], c[2])

SpecRetention == Init /\ [][NextRetention]_vars

\* ------------------------------------------------- the engine in parts
\* Next as a whole is too large to enumerate with the clock, both documents,
\* the timers and the feedback all varying. Each specification below keeps
\* the handlers that write what its properties read.

\* Delivery and feedback: cycles, reviews, accepts, dismisses. The clock
\* moves by whole cooldown periods.
NextEngine ==
    \/ \E t \in Times : t >= now + RateLimitMs /\ Advance(t)
    \/ \E d \in Docs : onDocumentSave(d)
    \/ \E d \in Docs : requestReview(d)
    \/ \E id \in IdInputs : dismissIntervention(id)
    \/ \E id \in IdInputs : acceptIntervention(id)

SpecEngine == Init /\ [][NextEngine]_vars

\* The detector's rate limit under saves and reviews.
NextCooldown ==
    \/ \E t \in Times : Advance(t)
    \/ \E c \in Configs : SetConfig(c)
    \/ \E d \in Docs : onDocumentSave(d)
    \/ \E d \in Docs : requestReview(d)

SpecCooldown == Init /\ [][NextCooldown]_vars

\* Change events and their timers.
NextDebounce ==
    \/ \E t \in Times \cup {tm.fireAt : tm \in timers} : Advance(t)
    \/ \E d \in Docs : onDocumentChange(d)
    \/ \E tm \in timers : TimerFires(tm)
    \/ \E e \in BOOLEAN : setFocusMode(e)
    \/ toggleInterventions

SpecDebounce == Init /\ [][NextDebounce]_vars

\* A session that starts on what an earlier session stored: the constructor
\* of LearningSystem loads the feedback, the patterns and the rules from
\* globalState. StoreAfter(calls) is what recordFeedback has saved after the
\* calls.
RECURSIVE StoreAfter(_)
StoreAfter(calls) ==
    IF calls = <<>>
    THEN [feedback |-> <<>>, patterns |-> EmptyMap, adaptation |-> EmptyRules]
    ELSE LET before == StoreAfter(SubSeq(calls, 1, Len(calls) - 1))
             intervention == calls[Len(calls)][1]
             action == calls[Len(calls)][2]
             lp == updateLearningPatterns(before.patterns, intervention, action)
         IN [feedback |-> Append(before.feedback,
                                 [interventionId |-> intervention.id, action |-> action,
                                  issueType |-> intervention.context.issueType]),
             patterns |-> lp,
             adaptation |-> updateAdaptationRules(before.adaptation, lp, intervention, action)]

\* an intervention of the earlier session; its id is none of this session's
EarlierIntervention(code, id) ==
    interventionOf([type |-> "security", severity |-> "warning", line |-> 1,
                    code |-> code, filePath |-> "old.js",
                    message |-> "Use Of Eval", suggestion |-> "Avoid Eval"],
                   id, "", "creative-collaborator")

Dismissals(intervention, n) == [i \in 1..n |-> <<intervention, "dismissed">>]

\* The earlier sessions: none; one that dismissed the pattern of the long
\* security line three times (the pattern is skipped, security is at 0.7);
\* one that dismissed three other security patterns twice each (nothing is
\* skipped, security is at 0.4).
EarlierSessions ==
    {<<>>,
     Dismissals(EarlierIntervention(LongLine("0"), 0), 3),
     Dismissals(EarlierIntervention(<<"x">>, 0), 2)
         \o Dismissals(EarlierIntervention(<<"y">>, -1), 2)
         \o Dismissals(EarlierIntervention(<<"z">>, -2), 2)}

CycleDocs == {"a.js", "c.js"}

InitCycle ==
    /\ now = StartTime
    /\ config = DefaultConfig
    /\ isActive = TRUE
    /\ focusMode = FALSE
    /\ lastDocumentChange = [d \in CycleDocs |-> 0]
    /\ timers = {}
    /\ running = <<>>
    /\ interventions = <<>>
    /\ nextId = 1
    /\ notifications = <<>>
    /\ lastSuggestionTime = 0
    /\ \E calls \in EarlierSessions :
           LET stored == StoreAfter(calls)
           IN /\ feedbackHistory = stored.feedback
              /\ learningPatterns = stored.patterns
              /\ adaptationRules = stored.adaptation
              /\ globalState = stored
    /\ lastChangeEvent = [d \in CycleDocs |-> 0]
    /\ lastRunOn = [d \in CycleDocs |-> 0]
    /\ lastPass = NoPass
    /\ lastCall = "none"
    /\ currentPersonality = loadCurrentPersonality(DefaultConfig)
    /\ lastResponse = NoResponse
    /\ lastScan = NoScan

\* every frequency setting with every per-cycle maximum up to the default
CycleConfigs ==
    {[DefaultConfig EXCEPT !.interventionFrequency = f, !.maxSuggestionsPerMinute = n] :
        f \in {"minimal", "balanced", "aggressive"}, n \in 1..DefaultMaxSuggestions}

\* Filtering and truncation in change- and save-triggered cycles. The clock
\* moves to the next timer's due time or by whole cooldown periods.
NextCycle ==
    \/ \E t \in Times \cup {tm.fireAt : tm \in timers} :
           (t >= now + RateLimitMs \/ t \in {tm.fireAt : tm \in timers}) /\ Advance(t)
    \/ \E c \in CycleConfigs : SetConfig(c)
    \/ \E d \in CycleDocs : onDocumentChange(d)
    \/ \E tm \in timers : TimerFires(tm)
    \/ \E d \in CycleDocs : onDocumentSave(d)

SpecCycle == InitCycle /\ [][NextCycle]_vars

\* Cycles that await a remote AI provider, on one document.
AIConfigs ==
    {DefaultConfig, [DefaultConfig EXCEPT !.useAIEnhancement = TRUE, !.aiProvider = "openai"]}

NextConcurrent ==
    \/ \E t \in Times \cup {tm.fireAt : tm \in timers} : Advance(t)
    \/ \E c \in AIConfigs : SetConfig(c)
    \/ onDocumentChange("a.js")
    \/ \E tm \in timers : TimerFires(tm)
    \/ onDocumentSave("a.js")
    \/ \E k \in DOMAIN running, analysis \in RemoteAnalyses : AIResponds(k, analysis)

SpecConcurrent == Init /\ [][NextConcurrent]_vars

\* The personality setting, changed by the switch command and from outside
\* (settings editor, team sync), and the interventions made under it.
PersonalityConfigs == {[DefaultConfig EXCEPT !.personality = t] : t \in PersonalityTypes}

NextPersonality ==
    \/ \E t \in Times : t >= now + RateLimitMs /\ Advance(t)
    \/ \E t \in PersonalityTypes \cup {"unknown"} : switchPersonality(t)
    \/ \E c \in PersonalityConfigs : SetConfig(c)
    \/ \E d \in Docs : onDocumentSave(d)

SpecPersonality == Init /\ [][NextPersonality]_vars

\* respondToIssue called directly, as the personality tests do, on contexts of
\* every issue type and severity, with and without description and suggestion
RespondContexts ==
    {[filePath |-> "test.js", lineNumber |-> 10, code |-> <<"x">>, issueType |-> t,
      severity |-> sv, description |-> ds, suggestion |-> sg] :
        t \in IssueTypes, sv \in Severities, ds \in {"", "Use Of Eval"},
        sg \in {"", "Avoid Eval"}}

NextRespond ==
    \/ \E t \in PersonalityTypes \cup {"unknown"} : switchPersonality(t)
    \/ \E c \in RespondContexts : CallRespondToIssue(c)

SpecRespond == Init /\ [][NextRespond]_vars

\* The loop detector on documents of two lines, a run of plain lines and two
\* more lines, which puts a later loop line just inside and just outside the
\* scanned window of an earlier one.
Padding(n) == [k \in 1..n |-> "x = 1"]

ScanTexts ==
    {<<l1, l2>> \o Padding(n) \o <<l3, l4>> :
        l1 \in ScanLines, l2 \in ScanLines, l3 \in ScanLines, l4 \in ScanLines,
        n \in {0, MaxPad - 1, MaxPad}}

InitScan ==
    /\ Constructed
    /\ \E lines \in ScanTexts : lastScan = [NoScan EXCEPT !.lines = lines]

NextScan == CallAnalyzeJavaScript

SpecScan == InitScan /\ [][NextScan]_vars

\* Interventions made with and without AI enhancement, by the rule-based
\* provider and by a remote one, and the feedback given on them. The clock
\* stands still: the cycle that runs is the first one.
EnhancementConfigs ==
    AIConfigs \cup {[DefaultConfig EXCEPT !.useAIEnhancement = TRUE]}

NextEnhanced ==
    \/ \E c \in EnhancementConfigs : SetConfig(c)
    \/ \E d \in Docs : onDocumentSave(d)
    \/ \E k \in DOMAIN running, analysis \in RemoteAnalyses : AIResponds(k, analysis)
    \/ \E id \in IdInputs : dismissIntervention(id)
    \/ \E id \in IdInputs : acceptIntervention(id)

SpecEnhanced == Init /\ [][NextEnhanced]_vars

\* Focus mode switched on and off between change events, their timers and
\* save events.
NextFocus ==
    \/ \E t \in Times \cup {tm.fireAt : tm \in timers} : Advance(t)
    \/ \E d \in Docs : onDocumentChange(d)
    \/ \E tm \in timers : TimerFires(tm)
    \/ \E d \in Docs : onDocumentSave(d)
    \/ \E e \in BOOLEAN : setFocusMode(e)

SpecFocus == Init /\ [][NextFocus]_vars

\* Reviews on demand between change events, their timers and save events.
NextReview ==
    \/ \E t \in Times \cup {tm.fireAt : tm \in timers} : Advance(t)
    \/ \E d \in Docs : onDocumentChange(d)
    \/ \E tm \in timers : TimerFires(tm)
    \/ \E d \in Docs : onDocumentSave(d)
    \/ \E d \in Docs : requestReview(d)

SpecReview == Init /\ [][NextReview]_vars

\* =================================================================== claims
\* Issues put to shouldShowIssue: two types, every severity, and lines that
\* agree with the first sample intervention on the first 30 characters, or
\* differ from it.
ProbeIssues ==
    {[type |-> t, severity |-> sv, line |-> 1, code |-> c, filePath |-> "a.js"] :
        t \in {"security", "style"}, sv \in Severities,
        c \in {LongLine("1"), LongLine("2"), <<"c", "l">>, <<"z">>}}

SampleOf(id) == CHOOSE iv \in SampleInterventions : iv.id = id

\* the pattern key a record of the history was recorded under
RecordKey(r) == extractPattern(SampleOf(r.interventionId))

DismissedThrice(i, P) ==
    \A j \in i..(i + 2) :
        feedbackHistory[j].action = "dismissed" /\ RecordKey(feedbackHistory[j]) = P

Keys == {extractPattern(iv) : iv \in SampleInterventions}

\* C1: once three consecutive recordFeedback calls have dismissed interventions
\* of pattern key P, P is in skipPatterns and shouldShowIssue is false for
\* every issue of key P, whatever its severity and whatever feedback followed.
C1_ThreeDismissalsSuppress ==
    \A P \in Keys : \A i \in 1..(Len(feedbackHistory) - 2) :
        DismissedThrice(i, P) =>
            /\ Includes(adaptationRules.skipPatterns, P)
            /\ \A issue \in ProbeIssues :
                   PatternKey(issue.type, issue.code) = P => ~shouldShowIssue(issue)

\* C1 witness: exactly three dismissals of the first sample intervention have
\* been recorded, and a critical issue of its key, on another line, is hidden.
C1_Witness ==
    /\ Len(feedbackHistory) = 3
    /\ DismissedThrice(1, extractPattern(SampleOf(1)))
    /\ ~shouldShowIssue([type |-> "security", severity |-> "critical", line |-> 1,
                         code |-> LongLine("2"), filePath |-> "a.js"])

\* sensitivityByKind[kind], 1.0 when absent
ClaimedSensitivity(type) ==
    IF type \in DOMAIN adaptationRules.issueTypeSensitivity
    THEN adaptationRules.issueTypeSensitivity[type]
    ELSE 100

\* C2: shouldShowIssue is false exactly when the issue's pattern key is in
\* skipPatterns, or the sensitivity of its type (1.0 when absent) is below 0.5
\* and the issue is not critical.
C2_ShouldShowDecision ==
    \A issue \in ProbeIssues :
        (~shouldShowIssue(issue)) <=>
            \/ Includes(adaptationRules.skipPatterns, PatternKey(issue.type, issue.code))
            \/ ClaimedSensitivity(issue.type) < 50 /\ issue.severity # "critical"

\* C2 witness: with the sensitivity of a type below 0.5, an unsuppressed
\* warning of that type is hidden while an unsuppressed critical issue of the
\* same type and line is shown.
C2_Witness ==
    \E issue \in ProbeIssues :
        /\ issue.severity = "warning"
        /\ ClaimedSensitivity(issue.type) < 50
        /\ ~Includes(adaptationRules.skipPatterns, PatternKey(issue.type, issue.code))
        /\ ~shouldShowIssue(issue)
        /\ shouldShowIssue([issue EXCEPT !.severity = "critical"])

\* the sensitivity the claim gives a type after the feedback in h: from 1.0,
\* minus 0.1 down to 0.3 per dismissal, plus 0.05 up to 1.0 per acceptance
RECURSIVE Replayed(_, _)
Replayed(h, type) ==
    IF h = <<>> THEN 100
    ELSE LET before == Replayed(SubSeq(h, 1, Len(h) - 1), type)
             r == h[Len(h)]
         IN IF r.issueType # type THEN before
            ELSE IF r.action = "dismissed" THEN (IF before - 10 < 30 THEN 30 ELSE before - 10)
            ELSE IF r.action = "accepted" THEN (IF before + 5 > 100 THEN 100 ELSE before + 5)
            ELSE before

\* C3: every stored sensitivity lies in [0.3, 1.0] and is what the feedback
\* recorded for its type since the last reset gives: 1.0 at first, 0.1 less
\* per dismissal but not below 0.3, 0.05 more per acceptance but not above
\* 1.0, unchanged by 'modified'.
C3_SensitivityBounds ==
    \A type \in DOMAIN adaptationRules.issueTypeSensitivity :
        LET v == adaptationRules.issueTypeSensitivity[type]
        IN /\ 30 <= v /\ v <= 100
           /\ v = Replayed(feedbackHistory, type)

\* C3 witness: eight dismissals of one type have been recorded, one more
\* than it takes to reach the floor, and its sensitivity is 0.3.
C3_Witness ==
    /\ Cardinality({i \in DOMAIN feedbackHistory :
                       /\ feedbackHistory[i].action = "dismissed"
                       /\ feedbackHistory[i].issueType = "security"}) = 8
    /\ adaptationRules.issueTypeSensitivity["security"] = 30

\* ---------------------------------------------------------------- engine
RecordsOf(id) == {i \in DOMAIN feedbackHistory : feedbackHistory[i].interventionId = id}

\* C4: accept and dismiss are idempotent per intervention: no intervention
\* has more than one record in the feedback history, and its pattern counts
\* no more occurrences than there are interventions of that pattern.
C4_OneRecordPerIntervention ==
    /\ \A k \in DOMAIN interventions : Cardinality(RecordsOf(interventions[k].id)) <= 1
    /\ \A P \in DOMAIN learningPatterns :
           learningPatterns[P].count
               <= Cardinality({k \in DOMAIN interventions : extractPattern(interventions[k]) = P})

\* C5: no intervention has both dismissed and accepted set.
C5_MutuallyExclusive ==
    \A k \in DOMAIN interventions : ~(interventions[k].dismissed /\ interventions[k].accepted)

KnownId(id) == \E k \in DOMAIN interventions : interventions[k].id = id

\* C6: an accept or dismiss call whose id matches no intervention of the live
\* collection leaves the collection, the feedback history, the learning
\* patterns and the adaptation rules as they were.
C6_UnknownIdNoOp ==
    [][\A id \in IdInputs :
          (~KnownId(id) /\ (dismissIntervention(id) \/ acceptIntervention(id)))
              => UNCHANGED <<interventions, feedbackHistory, learningPatterns,
                             adaptationRules>>]_vars

\* C6 witness: a call with an unknown id has just been ignored while the
\* live collection and the feedback history were not empty.
C6_Witness ==
    /\ lastCall \in {"dismiss ignored", "accept ignored"}
    /\ interventions # <<>>
    /\ feedbackHistory # <<>>

\* C7: getInterventions returns exactly the interventions whose dismissed flag
\* is unset, each once, in the order of their creation.
C7_ActiveInCreationOrder ==
    LET active == getInterventions
    IN /\ \A k \in DOMAIN interventions :
              (~interventions[k].dismissed) <=> (\E j \in DOMAIN active : active[j] = interventions[k])
       /\ \A j \in DOMAIN active : \E k \in DOMAIN interventions : active[j] = interventions[k]
       /\ \A i, j \in DOMAIN active : i < j => active[i].id < active[j].id

\* C7 witness: of two interventions the first was dismissed and the second
\* accepted; the second alone is active.
C7_Witness ==
    /\ Len(interventions) = 2
    /\ interventions[1].dismissed
    /\ interventions[2].accepted /\ ~interventions[2].dismissed
    /\ getInterventions = <<interventions[2]>>

\* --------------------------------------------------------------- cooldown
PassMade == lastPass.trigger # "none"

C9_PerDocumentCooldown ==
    (PassMade /\ lastPass.enabled /\ lastPass.result = <<>>) =>
        /\ lastRunOn[lastPass.doc] # 0
        /\ lastPass.at - lastRunOn[lastPass.doc] < 20000

\* --------------------------------------------------------------- debounce
\* C10: a change-triggered analysis starts exactly 1 second after the last
\* change event of its document (trailing debounce), so that changes less
\* than 1 second apart end in one analysis.
C10_TrailingDebounce ==
    lastPass.trigger = "change" => lastPass.sinceChange = 1000

PendingFor(d) == {tm \in timers : tm.doc = d}

\* C11: at every moment at most one setTimeout callback of onDocumentChange
\* is pending per document: a change arriving while one is pending replaces
\* it, so pending timers never stack.
C11_OneTimerPerDocument ==
    \A d \in DOMAIN lastDocumentChange : Cardinality(PendingFor(d)) <= 1


\* ----------------------------------------------------------------- cycles
\* a change- or save-triggered cycle on document d takes place in this step
CycleStep(d) ==
    \/ config.autoReviewOnSave /\ ~focusMode /\ onDocumentSave(d)
    \/ \E tm \in timers : tm.doc = d /\ TimerFires(tm)

\* the contexts of the interventions this step appends to the collection
Appended ==
    [k \in 1..(Len(interventions') - Len(interventions)) |->
        interventions'[Len(interventions) + k].context]

\* shouldShow as the rules in force decide it
ClaimedShow(issue) ==
    ~ \/ Includes(adaptationRules.skipPatterns, PatternKey(issue.type, issue.code))
      \/ ClaimedSensitivity(issue.type) < 50 /\ issue.severity # "critical"

ClaimedPolicy(issue) ==
    IF config.interventionFrequency = "minimal" THEN issue.severity = "critical"
    ELSE IF config.interventionFrequency = "balanced"
    THEN ~(issue.severity = "info" /\ issue.type # "security")
    ELSE TRUE

\* what survives shouldShow and then the frequency policy, of the issues the
\* detector returned in this step
Survivors == SelectSeq(SelectSeq(lastPass'.result, ClaimedShow), ClaimedPolicy)

ContextsOf(issues) == [k \in 1..Len(issues) |-> convertToSuggestionContext(issues[k])]

\* C12: in a change- or save-triggered cycle the frequency policy keeps, of
\* the issues that passed shouldShow, only critical ones under 'minimal', all
\* but info-severity non-security ones under 'balanced', and all of them
\* under any other setting: every intervention of the cycle is of an issue
\* the policy keeps, and when the maximum does not cut, each issue the policy
\* keeps gets its intervention.
C12_FrequencyPolicy ==
    [][\A d \in CycleDocs : CycleStep(d) =>
          /\ \A k \in DOMAIN Appended :
                 \E issue \in {lastPass'.result[j] : j \in DOMAIN lastPass'.result} :
                     /\ convertToSuggestionContext(issue) = Appended[k]
                     /\ ClaimedShow(issue) /\ ClaimedPolicy(issue)
          /\ Len(Survivors) <= config.maxSuggestionsPerMinute
                 => Appended = ContextsOf(Survivors)]_vars

\* C12 witness: with no rules learned, a cycle on c.js has delivered the
\* info-severity security issue and the critical issue and nothing else, the
\* info-severity style issue between them having been dropped ('balanced',
\* maximum 2).
C12_Witness ==
    /\ adaptationRules = EmptyRules
    /\ lastPass.doc = "c.js" /\ lastPass.result = DocIssues("c.js") /\ lastPass.at = StartTime
    /\ config.interventionFrequency = "balanced"
    /\ [k \in DOMAIN interventions |-> interventions[k].context]
           = ContextsOf(<<DocIssues("c.js")[1], DocIssues("c.js")[3]>>)

\* C13: the interventions a change- or save-triggered cycle creates are, in
\* detector order, the first N (the configured maximum) of the issues that
\* pass shouldShow and then the frequency policy, all of them when fewer than
\* N survive; never more than N, and issues the learning filter removed take
\* none of the N places.
C13_FirstNSurvivors ==
    [][\A d \in CycleDocs : CycleStep(d) =>
          /\ Len(Appended) <= config.maxSuggestionsPerMinute
          /\ Appended = ContextsOf(SubSeq(Survivors, 1,
                            IF Len(Survivors) < config.maxSuggestionsPerMinute
                            THEN Len(Survivors) ELSE config.maxSuggestionsPerMinute))]_vars

\* C13 witness: with security at 0.4 and nothing skipped, a cycle on c.js
\* with maximum 2 has delivered the second and third issue of the four the
\* detector found: the first was hidden by the learning filter and took no
\* place, the fourth was cut.
C13_Witness ==
    /\ ClaimedSensitivity("security") < 50
    /\ lastPass.doc = "c.js" /\ lastPass.result = DocIssues("c.js") /\ lastPass.at = StartTime
    /\ config.maxSuggestionsPerMinute = 2
    /\ [k \in DOMAIN interventions |-> interventions[k].context]
           = ContextsOf(<<DocIssues("c.js")[2], DocIssues("c.js")[3]>>)

\* ----------------------------------------------------------------- review
\* C14: an on-demand review creates an intervention for every detected issue
\* the configured frequency policy keeps, whatever the learned rules say, and
\* none for an issue the policy rejects.
C14_ReviewAppliesPolicy ==
    [][\A d \in DOMAIN lastRunOn : requestReview(d) =>
          Appended = ContextsOf(SelectSeq(lastPass'.result, ClaimedPolicy))]_vars

\* every intervention of the collection was announced exactly once
NotifiedOnce(id) == Cardinality({j \in DOMAIN notifications : notifications[j] = id}) = 1

\* C15: every intervention appended to the live collection, by a cycle or by
\* an on-demand review, caused exactly one dmentor.onInterventionCreated
\* command carrying it, and nothing else was announced.
C15_EveryInterventionNotified ==
    /\ \A k \in DOMAIN interventions : NotifiedOnce(interventions[k].id)
    /\ \A j \in DOMAIN notifications :
           \E k \in DOMAIN interventions : interventions[k].id = notifications[j]

\* ------------------------------------------------------------ concurrency
\* C16: no two analysis cycles for the same document are in progress at the
\* same time: while a cycle that got past the cooldown is still delivering
\* (awaiting AI enrichment included), no change-triggered cycle for its
\* document gets past the cooldown and starts delivering too.
C16_OneCyclePerDocument ==
    \A i, j \in DOMAIN running :
        (i < j /\ running[i].doc = running[j].doc) => running[j].trigger # "change"

\* -------------------------------------------------------------- retention
\* the record of a call
RecordOfCall(c) ==
    [interventionId |-> c[1].id, action |-> c[2], issueType |-> c[1].context.issueType]

\* the 1000 newest entries of h, oldest first
Newest(h) == IF Len(h) <= 1000 THEN h ELSE SubSeq(h, Len(h) - 999, Len(h))

\* C17: after every recordFeedback call the feedback history holds at most
\* 1000 records: what it held before and the record of the call, in recording
\* order, less the oldest ones beyond 1000.
C17_NewestThousand ==
    [][\A c \in CallInputs : FillAndRecord(c[1], c[2]) =>
          /\ Len(feedbackHistory') <= 1000
          /\ feedbackHistory' = Newest(Append(feedbackHistory, RecordOfCall(c)))]_vars

\* C17 witness: two calls more than the history holds have been made, the
\* last a dismissal; the history holds 1000 records, the dismissal last.
C17_Witness ==
    /\ CallsMade = 1002
    /\ Len(feedbackHistory) = 1000
    /\ feedbackHistory[1000].action = "dismissed"

StatsSumUp(stats) == stats.totalFeedback = stats.accepted + stats.dismissed + stats.modified

\* the counts of `after` are those of `before` with one more for action a
CountedOnce(before, after, a) ==
    /\ after.totalFeedback = before.totalFeedback + 1
    /\ after[a] = before[a] + 1
    /\ \A b \in FeedbackActions \ {a} : after[b] = before[b]

\* C18 as stated: after every recordFeedback(intervention, a) call the
\* statistics add up, and total and the count of a are one higher than
\* before the call, the other two counts unchanged.
C18_CountedOncePerCall ==
    [][\A c \in CallInputs : FillAndRecord(c[1], c[2]) =>
          /\ StatsSumUp(getLearningStats')
          /\ CountedOnce(getLearningStats, getLearningStats', c[2])]_vars

\* C18 amended: after every recordFeedback(intervention, a) call the
\* statistics add up; a call made while the history holds fewer than 1000
\* records raises total and the count of a by one and leaves the other two
\* counts alone; a call made while it holds 1000 leaves total at 1000 and
\* yields the counts of before, one more for a, one less for the action of
\* the oldest record, which the call drops.
C18_CountedOnceBelowCapacity ==
    [][\A c \in CallInputs : FillAndRecord(c[1], c[2]) =>
          LET before == getLearningStats
              after == getLearningStats'
          IN /\ StatsSumUp(after)
             /\ Len(feedbackHistory) < 1000 => CountedOnce(before, after, c[2])
             /\ Len(feedbackHistory) = 1000 =>
                    LET dropped == feedbackHistory[1].action
                    IN /\ after.totalFeedback = 1000
                       /\ \A b \in FeedbackActions :
                              after[b] = before[b] + (IF b = c[2] THEN 1 ELSE 0)
                                                   - (IF b = dropped THEN 1 ELSE 0)]_vars

\* C18 witness: 1001 calls have been made, the last two dismissals: the one
\* that filled the history was counted, and the one after it was counted
\* while the oldest record, a 'modified' one, went out of the statistics.
C18_Witness ==
    /\ CallsMade = 1001
    /\ feedbackHistory[999].action = "dismissed" /\ feedbackHistory[1000].action = "dismissed"
    /\ getLearningStats = [totalFeedback |-> 1000, accepted |-> 0, dismissed |-> 2,
                           modified |-> 998]

\* ------------------------------------------------------------------ reset
\* C19: after resetLearningData, whatever was recorded before, the feedback
\* history and the learning patterns are empty, skipPatterns and
\* preferredPatterns are empty, issueTypeSensitivity has no entry, globalState
\* holds that same cleared state, and shouldShowIssue is true of every issue.
C19_ResetClears ==
    [][ResetLearning =>
          /\ feedbackHistory' = <<>>
          /\ DOMAIN learningPatterns' = {}
          /\ adaptationRules'.skipPatterns = <<>>
          /\ adaptationRules'.preferredPatterns = <<>>
          /\ DOMAIN adaptationRules'.issueTypeSensitivity = {}
          /\ globalState'.feedback = <<>>
          /\ DOMAIN globalState'.patterns = {}
          /\ globalState'.adaptation = adaptationRules'
          /\ \A issue \in ProbeIssues : shouldShowIssueIn(adaptationRules', issue)]_vars

\* C19 witness: the store has just been reset and shows a critical issue of
\* the first sample intervention's pattern.
C19_Witness ==
    /\ lastCall = "reset"
    /\ feedbackHistory = <<>>
    /\ adaptationRules = EmptyRules
    /\ shouldShowIssue(DocIssues("a.js")[1])

\* 'dismissed' records of pattern key P in the history, which holds what was
\* recorded since the last reset
DismissalsOf(P) ==
    Cardinality({i \in DOMAIN feedbackHistory :
                    /\ feedbackHistory[i].action = "dismissed"
                    /\ RecordKey(feedbackHistory[i]) = P})

\* C20: a pattern key is in skipPatterns only if at least three 'dismissed'
\* feedback events of that key have been recorded since the last reset.
C20_SuppressedOnlyAfterThree ==
    \A P \in Keys : Includes(adaptationRules.skipPatterns, P) => DismissalsOf(P) >= 3

\* ---------------------------------------------------------- personalities
\* C21: interventions are formatted by the personality the setting selects:
\* every intervention a step appends carries the response that variant gives
\* its context, whether the setting was last changed by the switch command or
\* from outside; and a switch to an unknown variant leaves the active
\* personality as it was.
C21_FormattedBySetting ==
    [][/\ \A k \in (Len(interventions) + 1)..Len(interventions') :
              interventions'[k].response
                  = respondToIssue(config.personality, interventions'[k].context)
       /\ switchPersonality("unknown") => currentPersonality' = currentPersonality]_vars

\* every part of the message is text, and some part is not empty
NonEmptyMessage(message) == Len(message) > 0 /\ \E i \in DOMAIN message : message[i] # ""

\* C22: for every issue context each of the six variants returns a non-empty
\* message, a tone of the closed set and the one icon of that variant, the
\* same whatever the context; and what a call returns is what the variant
\* returns for that context in any state, whatever was called before.
C22_ResponseWellFormed ==
    lastResponse # NoResponse =>
        /\ lastResponse.by \in PersonalityTypes
        /\ NonEmptyMessage(lastResponse.result.message)
        /\ lastResponse.result.tone \in {"direct", "supportive", "questioning", "urgent", "gentle"}
        /\ \A c \in RespondContexts :
               respondToIssue(lastResponse.by, c).icon = lastResponse.result.icon
        /\ \A other \in PersonalityTypes \ {lastResponse.by} :
               respondToIssue(other, lastResponse.context).icon # lastResponse.result.icon
        /\ lastResponse.result = respondToIssue(lastResponse.by, lastResponse.context)

\* C22 witness: the rubber duck, switched to from the default, has answered
\* an info-severity style context that has neither description nor
\* suggestion.
C22_Witness ==
    /\ lastResponse # NoResponse
    /\ lastResponse.by = "rubber-duck"
    /\ lastResponse.context.issueType = "style" /\ lastResponse.context.severity = "info"
    /\ lastResponse.context.description = "" /\ lastResponse.context.suggestion = ""
    /\ lastResponse.result.icon = "emoji:duck"

\* ---------------------------------------------------------- loop detector

\* the brace count hasNestedLoop holds when it reaches line q, having started
\* at line p: the braces of the lines p .. q-1
RECURSIVE DepthBefore(_, _, _)
DepthBefore(lines, p, q) ==
    IF q <= p THEN 0
    ELSE DepthBefore(lines, p, q - 1) + OpenBraces(lines[q - 1]) - CloseBraces(lines[q - 1])

FlaggedLines(scan) == {scan.issues[k].line : k \in DOMAIN scan.issues}

\* loop line p is flagged exactly when another loop line follows within
\* `reach` lines at brace depth 1, and a lone loop line is never flagged
FlaggedWithin(scan, reach) ==
    scan.returned =>
    /\ \A k \in DOMAIN scan.issues :
           scan.issues[k].type = "performance" /\ scan.issues[k].severity = "warning"
    /\ \A p \in DOMAIN scan.lines :
           p \in FlaggedLines(scan) <=>
               /\ MatchesFor(scan.lines[p])
               /\ \E q \in (p + 1)..Min(p + reach, Len(scan.lines)) :
                      MatchesFor(scan.lines[q]) /\ DepthBefore(scan.lines, p, q) = 1
    /\ Cardinality({p \in DOMAIN scan.lines : MatchesFor(scan.lines[p])}) = 1
           => scan.issues = <<>>

\* C23 (as stated): a loop line L yields a performance/warning issue at L
\* exactly when a second loop line occurs within the next 20 lines after L at
\* running brace depth exactly 1; a document with one loop line yields none.
C23_FlaggedWithinNextTwenty == FlaggedWithin(lastScan, ScanWindow)

\* C23 (amended): the scan covers 20 lines with L itself as the first, so the
\* second loop line has to occur within the next 19 lines after L.
C23_FlaggedWithinScannedWindow == FlaggedWithin(lastScan, ScanWindow - 1)

\* a loop at depth 1 on the last scanned line, 19 lines after the outer loop,
\* is flagged
C23_Witness ==
    /\ lastScan.returned
    /\ Len(lastScan.lines) >= ScanWindow
    /\ \E p \in FlaggedLines(lastScan) :
           /\ p + ScanWindow - 1 <= Len(lastScan.lines)
           /\ MatchesFor(lastScan.lines[p + ScanWindow - 1])
           /\ \A q \in (p + 1)..(p + ScanWindow - 2) : ~MatchesFor(lastScan.lines[q])

\* ----------------------------------------------------------- adaptation
NoDuplicates(seq) == \A i, j \in DOMAIN seq : seq[i] = seq[j] => i = j

CountOf(lp, P) == IF P \in DOMAIN lp THEN lp[P].count ELSE 0

\* C24: a pattern key is added to skipPatterns only by a recordFeedback call
\* whose action is 'dismissed' and after which the pattern's count is at least
\* 3; 'accepted' and 'modified' calls leave skipPatterns as it is; and neither
\* skipPatterns nor preferredPatterns lists a key twice.
C24_SuppressedByDismissalOnly ==
    [][/\ \A P \in Keys :
              (~Includes(adaptationRules.skipPatterns, P)
                  /\ Includes(adaptationRules'.skipPatterns, P))
              => \E c \in CallInputs :
                     /\ CallRecordFeedback(c[1], c[2])
                     /\ c[2] = "dismissed"
                     /\ extractPattern(c[1]) = P
                     /\ CountOf(learningPatterns', P) >= 3
       /\ \A c \in CallInputs :
              (CallRecordFeedback(c[1], c[2]) /\ c[2] # "dismissed")
              => adaptationRules'.skipPatterns = adaptationRules.skipPatterns
       /\ NoDuplicates(adaptationRules'.skipPatterns)
       /\ NoDuplicates(adaptationRules'.preferredPatterns)]_vars

\* C24 witness: a pattern was accepted twice and then dismissed three times,
\* the first dismissal being its third occurrence; each list holds it once.
C24_Witness ==
    LET P == extractPattern(SampleOf(1))
    IN /\ Len(feedbackHistory) = 5
       /\ \A i \in 1..5 : feedbackHistory[i].interventionId = 1
       /\ \A i \in 1..2 : feedbackHistory[i].action = "accepted"
       /\ \A i \in 3..5 : feedbackHistory[i].action = "dismissed"
       /\ adaptationRules.skipPatterns = <<P>>
       /\ adaptationRules.preferredPatterns = <<P>>

ReactionTo(action) ==
    IF action = "accepted" THEN "preferred"
    ELSE IF action = "dismissed" THEN "rejected"
    ELSE "neutral"

\* C25: between resets each recordFeedback call adds exactly 1 to the count of
\* the one pattern of the intervention's key, creating it at 1 when absent,
\* lowers no pattern's count, and leaves that pattern's reaction set by the
\* action of this call alone.
C25_CountsOneOccurrence ==
    [][/\ \A c \in CallInputs :
              CallRecordFeedback(c[1], c[2]) =>
                  LET P == extractPattern(c[1])
                  IN /\ DOMAIN learningPatterns' = DOMAIN learningPatterns \cup {P}
                     /\ CountOf(learningPatterns', P) = CountOf(learningPatterns, P) + 1
                     /\ learningPatterns'[P].userReaction = ReactionTo(c[2])
                     /\ \A Q \in DOMAIN learningPatterns \ {P} :
                            learningPatterns'[Q] = learningPatterns[Q]
       /\ ~ResetLearning =>
              \A Q \in DOMAIN learningPatterns :
                  CountOf(learningPatterns', Q) >= CountOf(learningPatterns, Q)]_vars

\* C25 witness: a pattern accepted and then modified stands at count 2 and
\* reaction neutral, beside another pattern dismissed once.
C25_Witness ==
    LET P == extractPattern(SampleOf(1))
        Q == extractPattern(SampleOf(2))
    IN /\ Len(feedbackHistory) = 3
       /\ feedbackHistory[1].action = "accepted" /\ feedbackHistory[1].interventionId = 1
       /\ feedbackHistory[2].action = "dismissed" /\ feedbackHistory[2].interventionId = 2
       /\ feedbackHistory[3].action = "modified" /\ feedbackHistory[3].interventionId = 1
       /\ learningPatterns[P].count = 2 /\ learningPatterns[P].userReaction = "neutral"
       /\ learningPatterns[Q].count = 1 /\ learningPatterns[Q].userReaction = "rejected"

\* ------------------------------------------------------------ persistence
\* C26: when recordFeedback has returned, the persistence surface holds the
\* feedback history, learning patterns and adaptation rules that are in
\* memory; the persisted history is the trimmed one, of at most 1000 records.
C26_PersistedEqualsMemory ==
    lastCall = "recorded" =>
        /\ globalState.feedback = feedbackHistory
        /\ globalState.patterns = learningPatterns
        /\ globalState.adaptation = adaptationRules
        /\ Len(globalState.feedback) <= 1000

\* ------------------------------------------------------------ suppression
\* C27: a pattern key in skipPatterns stays there through any recordFeedback
\* call, whatever its action, and leaves the list only by a reset; and every
\* issue whose key is in both preferredPatterns and skipPatterns is hidden.
C27_SuppressionSticks ==
    [][/\ \A P \in Keys :
              (Includes(adaptationRules.skipPatterns, P)
                  /\ ~Includes(adaptationRules'.skipPatterns, P))
              => ResetLearning
       /\ \A issue \in ProbeIssues :
              LET P == PatternKey(issue.type, issue.code)
              IN (Includes(adaptationRules'.skipPatterns, P)
                     /\ Includes(adaptationRules'.preferredPatterns, P))
                 => ~shouldShowIssueIn(adaptationRules', issue)]_vars

\* C27 witness: a pattern accepted once and dismissed twice is suppressed; it
\* is then accepted and modified, and its critical issue is still hidden.
C27_Witness ==
    LET P == extractPattern(SampleOf(1))
    IN /\ Len(feedbackHistory) = 5
       /\ \A i \in 1..5 : feedbackHistory[i].interventionId = 1
       /\ feedbackHistory[1].action = "accepted"
       /\ feedbackHistory[2].action = "dismissed" /\ feedbackHistory[3].action = "dismissed"
       /\ feedbackHistory[4].action = "accepted" /\ feedbackHistory[5].action = "modified"
       /\ Includes(adaptationRules.skipPatterns, P)
       /\ Includes(adaptationRules.preferredPatterns, P)
       /\ \E issue \in ProbeIssues :
              /\ PatternKey(issue.type, issue.code) = P
              /\ issue.severity = "critical"
              /\ ~shouldShowIssue(issue)

\* ------------------------------------------------------------ pattern key
\* the issue of the detector an intervention's context was converted from
IssueOf(context) ==
    CHOOSE issue \in AllIssues :
        issue.filePath = context.filePath /\ issue.line = context.lineNumber

\* C28: the pattern key recordFeedback records an intervention under is the
\* key shouldShowIssue computes for the issue the intervention was made from
\* (type, ':', first 30 characters of the code), also when AI enhancement
\* replaced the suggestion: the call counts one occurrence of that key and
\* touches no other pattern.
C28_RecordedUnderIssueKey ==
    [][\A id \in IdInputs :
          (KnownId(id) /\ (dismissIntervention(id) \/ acceptIntervention(id))) =>
              LET issue == IssueOf(interventions[FindIndex(id)].context)
                  P == PatternKey(issue.type, issue.code)
              IN /\ extractPattern(interventions[FindIndex(id)]) = P
                 /\ DOMAIN learningPatterns' = DOMAIN learningPatterns \cup {P}
                 /\ CountOf(learningPatterns', P) = CountOf(learningPatterns, P) + 1
                 /\ \A Q \in DOMAIN learningPatterns \ {P} :
                        learningPatterns'[Q] = learningPatterns[Q]]_vars

\* C28 witness: an intervention whose suggestion a remote provider replaced
\* has been dismissed, and its issue's key counts one occurrence.
C28_Witness ==
    /\ lastCall = "dismissed"
    /\ \E k \in DOMAIN interventions :
           LET issue == IssueOf(interventions[k].context)
               P == PatternKey(issue.type, issue.code)
           IN /\ interventions[k].dismissed
              /\ interventions[k].context.suggestion = "AI Analysis"
              /\ issue.suggestion # "AI Analysis"
              /\ P \in DOMAIN learningPatterns
              /\ learningPatterns[P].count = 1
              /\ Len(feedbackHistory) = 1

\* ------------------------------------------------------------- focus mode
\* C29: while focus mode is on, no change event, no save event and no
\* analysis whose timer a change event scheduled, before or after focus mode
\* was switched on, adds an intervention.
C29_FocusModeSilences ==
    [][focusMode =>
          /\ \A d \in Docs :
                 (onDocumentChange(d) \/ onDocumentSave(d)) => interventions' = interventions
          /\ \A tm \in timers : TimerFires(tm) => interventions' = interventions]_vars

\* ----------------------------------------------------------------- review
\* when the detector last ran, on whichever document; 0 when it never ran
RECURSIVE Latest(_, _)
Latest(runs, docs) ==
    IF docs = {} THEN 0
    ELSE LET d == CHOOSE x \in docs : TRUE
         IN Max(runs[d], Latest(runs, docs \ {d}))

LastRan == Latest(lastRunOn, DOMAIN lastRunOn)

\* C30: a review on demand shares the detector's cooldown with the change and
\* save triggers: a review requested less than 20 seconds after the last pass
\* that ran, whatever triggered it, returns nothing and adds no intervention;
\* a review that runs starts a new window; and a change- or save-triggered
\* cycle inside the window of the last pass that ran adds no intervention.
C30_ReviewSharesCooldown ==
    [][\A d \in Docs :
          /\ requestReview(d) =>
                 IF LastRan # 0 /\ now - LastRan < 20000
                 THEN /\ lastPass'.result = <<>>
                      /\ interventions' = interventions
                      /\ lastSuggestionTime' = lastSuggestionTime
                 ELSE /\ lastPass'.result = DocIssues(d)
                      /\ lastSuggestionTime' = now
          /\ (LastRan # 0 /\ now - LastRan < 20000
                 /\ (onDocumentSave(d) \/ \E tm \in timers : tm.doc = d /\ TimerFires(tm)))
             => /\ interventions' = interventions
                /\ lastSuggestionTime' = lastSuggestionTime]_vars

\* C30 witness: the interventions there are were all made by a review, none
\* was notified, and the change-triggered cycle that followed inside the
\* review's window was turned away.
C30_Witness ==
    /\ interventions # <<>>
    /\ notifications = <<>>
    /\ lastPass.trigger = "change"
    /\ lastPass.enabled
    /\ lastPass.result = <<>>
    /\ lastPass.at - lastPass.prev < 20000
    /\ lastPass.prev = LastRan

====
